---- MODULE Spec2Model ----
(***************************************************************************)
(* A model of src/usage_report.py: the aggregation pipeline                *)
(* (create_usage_report, create_contributor_lists, create_tag_report and   *)
(* their helpers) and the paginated fetch loop (get_items).                *)
(*                                                                         *)
(* Python lists are sequences, Python dicts are records (functions over    *)
(* strings); an optional key is a key that may be missing from DOMAIN.     *)
(* The insertion-ordered dict tag_metrics is a sequence of (key, value)    *)
(* items.  Identifiers are written as strings so that a user id and the    *)
(* sentinel "unknown" can sit in one list.                                 *)
(*                                                                         *)
(* Columns that only copy an input field into a per-tag sum                *)
(* (question/answer up and down votes, questions_no_answers,               *)
(* questions_accepted_answer) and the users snapshot (user_count,          *)
(* users_with_badges) are left out: nothing below reads them.              *)
(***************************************************************************)
EXTENDS Integers, Sequences, FiniteSets, TLC

\* ------------------------------------------------------------ bounds
MaxQuestions == 2
MaxAnswers == 2
MaxUser == 1
MaxComments == 1
MaxView == 1
MaxPages == 3
MaxPageItems == 1
MaxItemId == 2

\* The tag universe of the model.
Tags == {"a", "b"}

\* A question_id that no loaded question has: question i of a snapshot has id i.
OrphanId == MaxQuestions + 1

\* ------------------------------------------------------------ values
\* An optional value: None, or Some(v) whose Head is v.  A search result, and an
\* output that is either not yet emitted or emitted with a content.
None == <<>>
Some(v) == <<v>>

NoError == [type |-> "none", message |-> "", args |-> <<>>]

Range(s) == {s[i] : i \in 1..Len(s)}

Min(S) == CHOOSE x \in S : \A y \in S : x <= y

Reverse(s) == [i \in 1..Len(s) |-> s[Len(s) + 1 - i]]

RECURSIVE SumSeq(_)
SumSeq(s) == IF s = <<>> THEN 0 ELSE Head(s) + SumSeq(Tail(s))

\* ------------------------------------------------------------ inputs
UserIds == {ToString(u) : u \in 1..MaxUser}

\* An owner reference: a user id, or no reference at all.
NoOwner == "no owner"
Owners == UserIds \cup {NoOwner}

WithOwner(item, o) ==
    IF o = NoOwner THEN item ELSE item @@ ("owner" :> [user_id |-> o])

WithComments(item, cs) ==
    IF cs = <<>> THEN item ELSE item @@ ("comments" :> cs)

Comment(o) == WithOwner([kind |-> "comment"], o)

\* The comments key is missing, or holds a non-empty list.
CommentLists ==
    UNION {[1..n -> {Comment(o) : o \in Owners}] : n \in 0..MaxComments}

\* Tag lists: non-empty, without repetition.
TagLists ==
    {t \in UNION {[1..n -> Tags] : n \in 1..Cardinality(Tags)} :
        \A i, j \in 1..Len(t) : i # j => t[i] # t[j]}

Question(id, tags, views, o, cs) ==
    WithComments(WithOwner(
        [question_id |-> id, tags |-> tags, view_count |-> views], o), cs)

Answer(qid, o, cs) == WithComments(WithOwner([question_id |-> qid], o), cs)

\* Lists of 1..MaxQuestions questions with view counts in Views and comment lists
\* in Cs.  Question i of a snapshot has question_id i: identifiers are unique.
QuestionLists(Views, Cs) ==
    UNION {
        {qs \in [1..n -> {Question(id, t, v, o, cs) :
                            id \in 1..n, t \in TagLists,
                            v \in Views, o \in Owners, cs \in Cs}] :
            \A i \in 1..n : qs[i]["question_id"] = i}
        : n \in 1..MaxQuestions}

\* Lists of 0..MaxAnswers answers with comment lists in Cs; the parent is one of the
\* possible questions or none of them.
AnswerLists(Cs) ==
    UNION {[1..n -> {Answer(qid, o, cs) :
                        qid \in (1..MaxQuestions) \cup {OrphanId},
                        o \in Owners, cs \in Cs}]
        : n \in 0..MaxAnswers}

\* ------------------------------------------------------------ state
VARIABLES
    questions,              \* questions.json as read by create_usage_report
    answers,                \* answers.json as read by create_usage_report
    pc,                     \* position in create_usage_report
    qi,                     \* index of the next question of the running loop
    ai,                     \* index of the next answer of the running loop
    tag_contributors,
    question_contributors,
    answer_contributors,
    comment_contributors,
    console,                \* None, or Some(the printed summary)
    tag_metrics,
    csv,                    \* None, or Some(the rows of tag_metrics.csv)
    error,                  \* the uncaught exception, or NoError
    endpoint,               \* the endpoint argument of the get_items call
    fpc,                    \* position in get_items
    page,                   \* params['page']
    items,                  \* the items collected by the running get_items
    files,                  \* endpoint -> None, or Some(the list written to the file)
    exchanges,              \* the requests sent and the responses received, in order
    slept                   \* seconds spent in time.sleep

report_vars == <<questions, answers, pc, qi, ai, tag_contributors,
                 question_contributors, answer_contributors, comment_contributors,
                 console, tag_metrics, csv, error>>

fetch_vars == <<endpoint, fpc, page, items, files, exchanges, slept>>

vars == <<report_vars, fetch_vars>>

inputs == <<questions, answers>>
lists == <<tag_contributors, question_contributors, answer_contributors,
           comment_contributors>>

\* ------------------------------------------------------------ helpers
\* A variant that leaves a missing owner without the sentinel, as a chain of .get()
\* calls would.
validate_user_id_without_sentinel(item) ==
    IF "owner" \in DOMAIN item /\ "user_id" \in DOMAIN item["owner"]
    THEN item["owner"]["user_id"]
    ELSE "None"

validate_user_id(item) ==
    IF "owner" \in DOMAIN item /\ "user_id" \in DOMAIN item["owner"]
    THEN item["owner"]["user_id"]
    ELSE "unknown"

\* A variant without the membership test.
add_user_to_list_unchecked(user_id, user_list) == Append(user_list, user_id)

add_user_to_list(user_id, user_list) ==
    IF user_id \notin Range(user_list) THEN Append(user_list, user_id) ELSE user_list

find_dict_in_list(id, key, list_of_dicts, return_index) ==
    LET hits == {i \in 1..Len(list_of_dicts) : list_of_dicts[i][key] = id}
    IN  IF hits = {} THEN None
        ELSE IF return_index THEN Some(Min(hits))
        ELSE Some(list_of_dicts[Min(hits)])

\* item.get('comments') or []
get_comments(item) == IF "comments" \in DOMAIN item THEN item["comments"] ELSE <<>>

\* ------------------------------------------------------------ create_contributor_lists
NewTagContributors(tag) ==
    [tag |-> tag, askers |-> <<>>, answerers |-> <<>>, commenters |-> <<>>]

\* The while True loop of lines 176-188: append a record for the tag unless one is
\* found, then leave with the index of the record found.
EnsureTag(tag, tc) ==
    IF find_dict_in_list(tag, "tag", tc, TRUE) = None
    THEN Append(tc, NewTagContributors(tag))
    ELSE tc

\* The comment loops of lines 195-200 and 213-218, from comment k on.  st holds the
\* locals tag_contributors (tc) and comment_contributors (cc).
RECURSIVE AddCommenters(_, _, _, _)
AddCommenters(comments, k, tag_index, st) ==
    IF k > Len(comments) THEN st
    ELSE LET commenter_id == validate_user_id(comments[k])
             cc == add_user_to_list(commenter_id, st.cc)
             tc == [st.tc EXCEPT ![tag_index].commenters =
                                    add_user_to_list(commenter_id, @)]
         IN  AddCommenters(comments, k + 1, tag_index, [tc |-> tc, cc |-> cc])

\* The tag loop of lines 175-200, from tag k of the question on.
RECURSIVE QuestionTags(_, _, _, _)
QuestionTags(question, k, asker_id, st) ==
    IF k > Len(question["tags"]) THEN st
    ELSE LET tag == question["tags"][k]
             tc1 == EnsureTag(tag, st.tc)
             tag_index == Head(find_dict_in_list(tag, "tag", tc1, TRUE))
             tc2 == [tc1 EXCEPT ![tag_index].askers = add_user_to_list(asker_id, @)]
         IN  QuestionTags(question, k + 1, asker_id,
                 AddCommenters(get_comments(question), 1, tag_index,
                               [tc |-> tc2, cc |-> st.cc]))

\* The tag loop of lines 207-218, from tag k of the parent question on.
RECURSIVE AnswerTags(_, _, _, _, _)
AnswerTags(answer, question, k, answerer_id, st) ==
    IF k > Len(question["tags"]) THEN st
    ELSE LET tag == question["tags"][k]
             tag_index == Head(find_dict_in_list(tag, "tag", st.tc, TRUE))
             tc1 == [st.tc EXCEPT ![tag_index].answerers =
                                    add_user_to_list(answerer_id, @)]
         IN  AnswerTags(answer, question, k + 1, answerer_id,
                 AddCommenters(get_comments(answer), 1, tag_index,
                               [tc |-> tc1, cc |-> st.cc]))

\* question['tags'] with question = None.
NoneSubscript ==
    [type |-> "TypeError", message |-> "'NoneType' object is not subscriptable",
     args |-> <<>>]

\* One pass of the loop over questions, lines 172-200.
CL_Question ==
    /\ pc = "create_contributor_lists"
    /\ qi <= Len(questions)
    /\ LET question == questions[qi]
           asker_id == validate_user_id(question)
           st == QuestionTags(question, 1, asker_id,
                              [tc |-> tag_contributors, cc |-> comment_contributors])
       IN  /\ question_contributors' = add_user_to_list(asker_id, question_contributors)
           /\ tag_contributors' = st.tc
           /\ comment_contributors' = st.cc
    /\ qi' = qi + 1
    /\ UNCHANGED <<inputs, pc, ai, answer_contributors, console, tag_metrics, csv, error,
                   fetch_vars>>

\* A variant that passes over an answer whose parent question is not found.
CL_Answer_SkipsOrphan ==
    /\ pc = "create_contributor_lists"
    /\ qi > Len(questions)
    /\ ai <= Len(answers)
    /\ LET answer == answers[ai]
           answerer_id == validate_user_id(answer)
           found == find_dict_in_list(answer["question_id"], "question_id",
                                      questions, FALSE)
       IN  /\ answer_contributors' = add_user_to_list(answerer_id, answer_contributors)
           /\ IF found = None
              THEN UNCHANGED <<tag_contributors, comment_contributors>>
              ELSE LET st == AnswerTags(answer, Head(found), 1, answerer_id,
                                 [tc |-> tag_contributors, cc |-> comment_contributors])
                   IN  /\ tag_contributors' = st.tc
                       /\ comment_contributors' = st.cc
    /\ ai' = ai + 1
    /\ UNCHANGED <<inputs, pc, error, qi, question_contributors, console, tag_metrics,
                   csv, fetch_vars>>

\* One pass of the loop over answers, lines 202-218.
CL_Answer ==
    /\ pc = "create_contributor_lists"
    /\ qi > Len(questions)
    /\ ai <= Len(answers)
    /\ LET answer == answers[ai]
           answerer_id == validate_user_id(answer)
           found == find_dict_in_list(answer["question_id"], "question_id",
                                      questions, FALSE)
       IN  /\ answer_contributors' = add_user_to_list(answerer_id, answer_contributors)
           /\ IF found = None
              THEN /\ pc' = "error"
                   /\ error' = NoneSubscript
                   /\ UNCHANGED <<ai, tag_contributors, comment_contributors>>
              ELSE LET st == AnswerTags(answer, Head(found), 1, answerer_id,
                                 [tc |-> tag_contributors, cc |-> comment_contributors])
                   IN  /\ tag_contributors' = st.tc
                       /\ comment_contributors' = st.cc
                       /\ ai' = ai + 1
                       /\ UNCHANGED <<pc, error>>
    /\ UNCHANGED <<inputs, qi, question_contributors, console, tag_metrics, csv,
                   fetch_vars>>

\* ------------------------------------------------------------ create_usage_report
RECURSIVE TotalViewCount(_, _)
TotalViewCount(qs, k) ==
    IF k > Len(qs) THEN 0 ELSE qs[k]["view_count"] + TotalViewCount(qs, k + 1)

\* len(set(...)) of a list.
LenSet(list) == Cardinality(Range(list))

all_unique_contributors(qc, ac, cc) == Range(qc \o ac \o cc)

asked_and_answered(qc, ac) == SelectSeq(qc, LAMBDA value : value \in Range(ac))

\* Lines 101-137: create_contributor_lists has returned; count and print.
Summary ==
    /\ pc = "create_contributor_lists"
    /\ qi > Len(questions)
    /\ ai > Len(answers)
    /\ console' = Some(
         [asker_count |-> Len(question_contributors),
          answerer_count |-> Len(answer_contributors),
          asked_and_answered_count |->
              Len(asked_and_answered(question_contributors, answer_contributors)),
          contributor_count |->
              Cardinality(all_unique_contributors(question_contributors,
                              answer_contributors, comment_contributors)),
          question_count |-> Len(questions),
          answer_count |-> Len(answers),
          total_view_count |-> TotalViewCount(questions, 1)])
    /\ pc' = "create_tag_report"
    /\ qi' = 1
    /\ ai' = 1
    /\ UNCHANGED <<inputs, lists, tag_metrics, csv, error, fetch_vars>>

\* ------------------------------------------------------------ create_tag_report
\* tag_metrics is a list of items <<tag, metrics>> in insertion order.
NewTagMetrics ==
    [view_count |-> 0, unique_askers |-> 0, unique_answerers |-> 0,
     unique_commenters |-> 0, unique_contributors |-> 0, question_count |-> 1,
     question_comments |-> 0, answer_count |-> 0, answer_comments |-> 0]

\* The index of tag_metrics[tag], or None for a KeyError.
KeyIndex(tm, tag) ==
    LET hits == {i \in 1..Len(tm) : tm[i][1] = tag}
    IN  IF hits = {} THEN None ELSE Some(Min(hits))

\* len(item['comments']), 0 when the KeyError is passed over.
LenComments(item) == IF "comments" \in DOMAIN item THEN Len(item["comments"]) ELSE 0

\* A variant that creates an entry for every question of the tag.
CountQuestion_AlwaysNew(tm, tag) == Append(tm, <<tag, NewTagMetrics>>)

\* Lines 228-247: count the question under the tag, creating the entry on a KeyError.
CountQuestion(tm, tag) ==
    IF KeyIndex(tm, tag) = None
    THEN Append(tm, <<tag, NewTagMetrics>>)
    ELSE [tm EXCEPT ![Head(KeyIndex(tm, tag))][2].question_count = @ + 1]

\* A variant that adds the three lengths up.
unique_contributors_sum(tag_contributor_data) ==
    Len(tag_contributor_data["askers"] \o tag_contributor_data["answerers"]
        \o tag_contributor_data["commenters"])

unique_contributors(tag_contributor_data) ==
    LenSet(tag_contributor_data["askers"] \o tag_contributor_data["answerers"]
           \o tag_contributor_data["commenters"])

\* Lines 248-269 for one tag of a question.
QuestionMetrics(m, question, tag_contributor_data) ==
    [m EXCEPT !.view_count = @ + question["view_count"],
              !.question_comments = @ + LenComments(question),
              !.unique_askers = Len(tag_contributor_data["askers"]),
              !.unique_answerers = Len(tag_contributor_data["answerers"]),
              !.unique_commenters = Len(tag_contributor_data["commenters"]),
              !.unique_contributors = unique_contributors(tag_contributor_data)]

\* The tag loop of lines 227-269, from tag k of the question on.
RECURSIVE ReportQuestionTags(_, _, _, _)
ReportQuestionTags(question, k, tc, tm) ==
    IF k > Len(question["tags"]) THEN tm
    ELSE LET tag == question["tags"][k]
             tm1 == CountQuestion(tm, tag)
             i == Head(KeyIndex(tm1, tag))
             tag_contributor_data == Head(find_dict_in_list(tag, "tag", tc, FALSE))
         IN  ReportQuestionTags(question, k + 1, tc,
                 [tm1 EXCEPT ![i][2] =
                     QuestionMetrics(@, question, tag_contributor_data)])

\* A variant that sets answer_count instead of adding to it.
AnswerMetrics_Assign(m, answer) ==
    [m EXCEPT !.answer_count = 1,
              !.answer_comments = @ + LenComments(answer)]

\* Lines 274-280 for one tag of the parent question.
AnswerMetrics(m, answer) ==
    [m EXCEPT !.answer_count = @ + 1,
              !.answer_comments = @ + LenComments(answer)]

\* The tag loop of lines 273-280, from tag k of the parent question on.
RECURSIVE ReportAnswerTags(_, _, _, _)
ReportAnswerTags(answer, question, k, tm) ==
    IF k > Len(question["tags"]) THEN tm
    ELSE LET i == Head(KeyIndex(tm, question["tags"][k]))
         IN  ReportAnswerTags(answer, question, k + 1,
                 [tm EXCEPT ![i][2] = AnswerMetrics(@, answer)])

\* The sort key of line 283.
ViewKey(item) == item[2]["view_count"]

\* A stable ascending sort by ViewKey: each item goes behind the items sorted so far
\* whose key is not greater.
RECURSIVE SortedAscending(_)
SortedAscending(its) ==
    IF its = <<>> THEN <<>>
    ELSE LET n == Len(its)
             x == its[n]
             done == SortedAscending(SubSeq(its, 1, n - 1))
             keep == {i \in 1..Len(done) : ViewKey(done[i]) <= ViewKey(x)}
             at == IF keep = {} THEN 0 ELSE CHOOSE i \in keep : \A j \in keep : j <= i
         IN  SubSeq(done, 1, at) \o <<x>> \o SubSeq(done, at + 1, Len(done))

\* A variant that sorts ascending and reverses the result.
sorted_then_reversed(its, reverse) ==
    IF reverse THEN Reverse(SortedAscending(its)) ELSE SortedAscending(its)

\* sorted(its, key=ViewKey, reverse=...): with reverse the list is reversed, sorted
\* ascending and reversed again, so equal keys keep their order.
sorted(its, reverse) ==
    IF reverse THEN Reverse(SortedAscending(Reverse(its)))
    ELSE SortedAscending(its)

\* list(tag_data[1].values()): the values in the order the keys were created.
MetricValues(m) ==
    <<m.view_count, m.unique_askers, m.unique_answerers, m.unique_commenters,
      m.unique_contributors, m.question_count, m.question_comments, m.answer_count,
      m.answer_comments>>

csv_row(tag_data) == <<tag_data[1]>> \o MetricValues(tag_data[2])

csv_data(tags_sorted_by_view_count) ==
    [i \in 1..Len(tags_sorted_by_view_count) |-> csv_row(tags_sorted_by_view_count[i])]

\* One pass of the loop over questions, lines 226-269.
TR_Question ==
    /\ pc = "create_tag_report"
    /\ qi <= Len(questions)
    /\ tag_metrics' = ReportQuestionTags(questions[qi], 1, tag_contributors, tag_metrics)
    /\ qi' = qi + 1
    /\ UNCHANGED <<inputs, pc, ai, lists, console, csv, error, fetch_vars>>

\* One pass of the loop over answers, lines 271-280.
TR_Answer ==
    /\ pc = "create_tag_report"
    /\ qi > Len(questions)
    /\ ai <= Len(answers)
    /\ LET answer == answers[ai]
           found == find_dict_in_list(answer["question_id"], "question_id",
                                      questions, FALSE)
       IN  IF found = None
           THEN /\ pc' = "error"
                /\ error' = NoneSubscript
                /\ UNCHANGED <<ai, tag_metrics>>
           ELSE /\ tag_metrics' = ReportAnswerTags(answer, Head(found), 1, tag_metrics)
                /\ ai' = ai + 1
                /\ UNCHANGED <<pc, error>>
    /\ UNCHANGED <<inputs, qi, lists, console, csv, fetch_vars>>

\* Lines 282-297: sort, build the rows, write tag_metrics.csv.
TR_Write ==
    /\ pc = "create_tag_report"
    /\ qi > Len(questions)
    /\ ai > Len(answers)
    /\ csv' = Some(csv_data(sorted(tag_metrics, TRUE)))
    /\ pc' = "done"
    /\ UNCHANGED <<inputs, qi, ai, lists, console, tag_metrics, error, fetch_vars>>


\* ------------------------------------------------------------ get_items
\* The endpoints __main__ calls get_items for, lines 388-390.
Endpoints == {"questions", "answers", "users"}

\* What the server may answer to the request for page p: a failure, or a page of at
\* most MaxPageItems items.  The collection has at most MaxPages pages.
Responses(p) ==
    {[status_code |-> 502, items |-> <<>>, has_more |-> FALSE, backoff |-> FALSE]}
    \cup
    {[status_code |-> 200, items |-> d, has_more |-> h, backoff |-> b] :
        d \in UNION {[1..n -> 1..MaxItemId] : n \in 0..MaxPageItems},
        h \in {m \in BOOLEAN : m => p < MaxPages},
        b \in BOOLEAN}

\* Lines 43-57: the call sets up its parameters and its empty list.
GI_Start ==
    /\ fpc = "called"
    /\ page' = 1
    /\ items' = <<>>
    /\ fpc' = "request"
    /\ UNCHANGED <<endpoint, files, exchanges, slept, report_vars>>

\* A variant that asks again for the page after a failure.
GI_Request_Retry ==
    /\ fpc = "request"
    /\ \E response \in Responses(page) :
        /\ exchanges' = Append(exchanges,
                               [endpoint |-> endpoint, page |-> page,
                                status_code |-> response.status_code,
                                items |-> response.items])
        /\ IF response.status_code # 200
           THEN UNCHANGED <<fpc, page, items, slept>>
           ELSE /\ items' = items \o response.items
                /\ IF ~response.has_more
                   THEN /\ fpc' = "write"
                        /\ UNCHANGED <<page, slept>>
                   ELSE /\ slept' = IF response.backoff THEN slept + 15 ELSE slept
                        /\ page' = page + 1
                        /\ UNCHANGED fpc
    /\ UNCHANGED <<endpoint, files, report_vars>>

\* One pass of the while True loop, lines 58-79.
GI_Request ==
    /\ fpc = "request"
    /\ \E response \in Responses(page) :
        /\ exchanges' = Append(exchanges,
                               [endpoint |-> endpoint, page |-> page,
                                status_code |-> response.status_code,
                                items |-> response.items])
        /\ IF response.status_code # 200
           THEN /\ fpc' = "write"
                /\ UNCHANGED <<page, items, slept>>
           ELSE /\ items' = items \o response.items
                /\ IF ~response.has_more
                   THEN /\ fpc' = "write"
                        /\ UNCHANGED <<page, slept>>
                   ELSE /\ slept' = IF response.backoff THEN slept + 15 ELSE slept
                        /\ page' = page + 1
                        /\ UNCHANGED fpc
    /\ UNCHANGED <<endpoint, files, report_vars>>

\* Line 81: write_json(items, endpoint + ".json"), and the return.
GI_Write ==
    /\ fpc = "write"
    /\ files' = [files EXCEPT ![endpoint] = Some(items)]
    /\ fpc' = "returned"
    /\ UNCHANGED <<endpoint, page, items, exchanges, slept, report_vars>>

\* ------------------------------------------------------------ specification
\* The get_items calls are not part of the report's specification: their variables
\* are held at rest, the last call of __main__ having returned.
FetchDone ==
    /\ endpoint = "users"
    /\ fpc = "returned"
    /\ page = 1
    /\ items = <<>>
    /\ files = [e \in Endpoints |-> None]
    /\ exchanges = <<>>
    /\ slept = 0

\* create_usage_report has read its snapshots and is about to call
\* create_contributor_lists.  The snapshots are those in which every question has the
\* same view count, and those without comments.
Init ==
    /\ \/ /\ questions \in QuestionLists({MaxView}, CommentLists)
          /\ answers \in AnswerLists(CommentLists)
       \/ /\ questions \in QuestionLists(0..MaxView, {<<>>})
          /\ answers \in AnswerLists({<<>>})
    /\ pc = "create_contributor_lists"
    /\ qi = 1
    /\ ai = 1
    /\ tag_contributors = <<>>
    /\ question_contributors = <<>>
    /\ answer_contributors = <<>>
    /\ comment_contributors = <<>>
    /\ console = None
    /\ tag_metrics = <<>>
    /\ csv = None
    /\ error = NoError
    /\ FetchDone

Next ==
    \/ CL_Question
    \/ CL_Answer
    \/ Summary
    \/ TR_Question
    \/ TR_Answer
    \/ TR_Write

Spec == Init /\ [][Next]_vars

\* get_items has just been called for one of the endpoints; no file is written yet,
\* and create_usage_report has not started.  page and items are not yet bound.
FetchInit ==
    /\ endpoint \in Endpoints
    /\ fpc = "called"
    /\ page = 0
    /\ items = <<>>
    /\ files = [e \in Endpoints |-> None]
    /\ exchanges = <<>>
    /\ slept = 0
    /\ questions = <<>>
    /\ answers = <<>>
    /\ pc = "not started"
    /\ qi = 1
    /\ ai = 1
    /\ tag_contributors = <<>>
    /\ question_contributors = <<>>
    /\ answer_contributors = <<>>
    /\ comment_contributors = <<>>
    /\ console = None
    /\ tag_metrics = <<>>
    /\ csv = None
    /\ error = NoError

FetchNext ==
    \/ GI_Start
    \/ GI_Request
    \/ GI_Write

FetchSpec == FetchInit /\ [][FetchNext]_vars

\* ------------------------------------------------------------ what the inputs say
\* The question ids loaded.
QuestionIds == {questions[i]["question_id"] : i \in 1..Len(questions)}

IsOrphan(answer) == answer["question_id"] \notin QuestionIds

HasOrphan == \E j \in 1..Len(answers) : IsOrphan(answers[j])

FirstOrphan == Min({j \in 1..Len(answers) : IsOrphan(answers[j])})

\* The question an answer belongs to (for an answer that is no orphan).
Parent(answer) ==
    questions[CHOOSE i \in 1..Len(questions) :
                 questions[i]["question_id"] = answer["question_id"]]

Carries(question, tag) == tag \in Range(question["tags"])

AllTags == UNION {Range(questions[i]["tags"]) : i \in 1..Len(questions)}

QuestionsWith(tag) == {i \in 1..Len(questions) : Carries(questions[i], tag)}

AnswersWith(tag) ==
    {j \in 1..Len(answers) : ~IsOrphan(answers[j]) /\ Carries(Parent(answers[j]), tag)}

HasNoOwner(item) == "owner" \notin DOMAIN item

HasOwnerlessComment(item) ==
    \E k \in 1..Len(get_comments(item)) : HasNoOwner(get_comments(item)[k])

Count(list, x) == Cardinality({i \in 1..Len(list) : list[i] = x})

NoDuplicates(list) == \A i, j \in 1..Len(list) : list[i] = list[j] => i = j

\* The record tag_contributors holds for a tag.
ContributorsOf(tag) ==
    tag_contributors[CHOOSE i \in 1..Len(tag_contributors) :
                        tag_contributors[i]["tag"] = tag]

\* The columns of a row of tag_metrics.csv.
RowTag(row) == row[1]
RowViews(row) == row[2]
RowAskers(row) == row[3]
RowAnswerers(row) == row[4]
RowCommenters(row) == row[5]
RowContributors(row) == row[6]
RowQuestions(row) == row[7]
RowAnswers(row) == row[9]

Rows == Head(csv)

ListsBuilt == pc \in {"create_tag_report", "done"}

\* ------------------------------------------------------------ C1
\* C1: if some loaded answer has a question_id that no loaded question has, the run
\* ends in the error state: the loop over answers never gets past the first such
\* answer, the step taken at that answer enters the error state, and neither the
\* console summary nor tag_metrics.csv is ever emitted.
C1_OrphanStopsTheRun ==
    /\ [](HasOrphan =>
            /\ console = None
            /\ csv = None
            /\ pc \in {"create_contributor_lists", "error"}
            /\ ai <= FirstOrphan
            /\ (pc = "error" => ai = FirstOrphan /\ error # NoError))
    /\ [][HasOrphan /\ qi > Len(questions) /\ ai = FirstOrphan => pc' = "error"]_vars

C1_Witness ==
    /\ pc = "error"
    /\ Len(answers) = 2
    /\ ~IsOrphan(answers[1])
    /\ IsOrphan(answers[2])
    /\ Len(answer_contributors) = 2

\* ------------------------------------------------------------ C2
\* C2: when aggregation completes, the tags of the rows of the tag table, the tags of
\* tag_contributors and the tags of the loaded questions are the same set, and each
\* tag has exactly one row and exactly one tag_contributors record.
C2_SameTagUniverse ==
    pc = "done" =>
        /\ {RowTag(Rows[i]) : i \in 1..Len(Rows)} = AllTags
        /\ {tag_contributors[i]["tag"] : i \in 1..Len(tag_contributors)} = AllTags
        /\ Len(Rows) = Cardinality(AllTags)
        /\ Len(tag_contributors) = Cardinality(AllTags)
        /\ {tag_metrics[i][1] : i \in 1..Len(tag_metrics)} = AllTags
        /\ Len(tag_metrics) = Cardinality(AllTags)

C2_Witness ==
    /\ pc = "done"
    /\ Len(questions) = 2
    /\ Len(questions[1]["tags"]) = 2
    /\ Len(questions[2]["tags"]) = 1
    /\ Len(answers) = 2
    /\ Len(Rows) = 2

\* ------------------------------------------------------------ C3
\* C3: in every row of the final tag table, unique_contributors is the number of
\* distinct users in the union of the tag's final askers, answerers and commenters,
\* and unique_askers, unique_answerers and unique_commenters are the numbers of
\* distinct users in the tag's final askers, answerers and commenters.
C3_UniqueCounts ==
    pc = "done" =>
        \A i \in 1..Len(Rows) :
            LET c == ContributorsOf(RowTag(Rows[i]))
            IN  /\ RowContributors(Rows[i]) =
                       Cardinality(Range(c["askers"]) \cup Range(c["answerers"])
                                   \cup Range(c["commenters"]))
                /\ RowAskers(Rows[i]) = Cardinality(Range(c["askers"]))
                /\ RowAnswerers(Rows[i]) = Cardinality(Range(c["answerers"]))
                /\ RowCommenters(Rows[i]) = Cardinality(Range(c["commenters"]))

\* A tag under which one user asked and answered, and somebody commented an answer.
C3_Witness ==
    /\ pc = "done"
    /\ \E i \in 1..Len(Rows) :
        LET c == ContributorsOf(RowTag(Rows[i]))
        IN  /\ Range(c["askers"]) \cap Range(c["answerers"]) # {}
            /\ RowContributors(Rows[i]) = 2
            /\ RowAskers(Rows[i]) + RowAnswerers(Rows[i]) + RowCommenters(Rows[i]) > 2
            /\ \E j \in AnswersWith(RowTag(Rows[i])) : get_comments(answers[j]) # <<>>

\* ------------------------------------------------------------ C4
\* C4: in every row of the final tag table, question_count is the number of loaded
\* questions that carry the tag and answer_count is the number of loaded answers whose
\* parent question carries the tag; the question_counts add up to the sum of the
\* questions' numbers of tags, the answer_counts to the sum over the answers of their
\* parents' numbers of tags.
C4_CountsReconcile ==
    pc = "done" =>
        /\ \A i \in 1..Len(Rows) :
            /\ RowQuestions(Rows[i]) = Cardinality(QuestionsWith(RowTag(Rows[i])))
            /\ RowAnswers(Rows[i]) = Cardinality(AnswersWith(RowTag(Rows[i])))
        /\ SumSeq([i \in 1..Len(Rows) |-> RowQuestions(Rows[i])]) =
               SumSeq([i \in 1..Len(questions) |-> Len(questions[i]["tags"])])
        /\ SumSeq([i \in 1..Len(Rows) |-> RowAnswers(Rows[i])]) =
               SumSeq([j \in 1..Len(answers) |-> Len(Parent(answers[j])["tags"])])

C4_Witness ==
    /\ pc = "done"
    /\ Len(questions) = 2
    /\ Len(questions[1]["tags"]) = 2
    /\ \E i \in 1..Len(Rows) : RowQuestions(Rows[i]) = 2 /\ RowAnswers(Rows[i]) = 2
    /\ \E i \in 1..Len(Rows) : RowQuestions(Rows[i]) = 1

\* ------------------------------------------------------------ C5
\* C5: the printed contributor_count is the size of the union of the global asker
\* list and the global answerer list.
C5_ContributorCountIsAskersOrAnswerers ==
    ListsBuilt =>
        Head(console).contributor_count =
            Cardinality(Range(question_contributors) \cup Range(answer_contributors))

\* ------------------------------------------------------------ C6
\* C6: the error raised for an answer whose question_id matches no loaded question
\* carries that question_id.
C6_DiagnosticNamesTheQuestion ==
    pc = "error" => answers[ai]["question_id"] \in Range(error.args)

\* ------------------------------------------------------------ C7
\* The order in which the scan of the questions and their tag lists meets the tags.
RECURSIVE TagScan(_)
TagScan(k) == IF k > Len(questions) THEN <<>> ELSE questions[k]["tags"] \o TagScan(k + 1)

FirstSeen(tag) == Min({i \in 1..Len(TagScan(1)) : TagScan(1)[i] = tag})

\* The view counts of the questions that carry the tag, added up.
AggregateViews(tag) ==
    SumSeq([i \in 1..Len(questions) |->
               IF Carries(questions[i], tag) THEN questions[i]["view_count"] ELSE 0])

\* C7: the rows of the tag table carry their tags' aggregate view counts and come in
\* descending order of them; of two tags with equal aggregate view counts, the one
\* the scan of the questions and their tag lists met first comes first.
C7_StableDescendingOrder ==
    pc = "done" =>
        /\ \A i \in 1..Len(Rows) : RowViews(Rows[i]) = AggregateViews(RowTag(Rows[i]))
        /\ \A i, j \in 1..Len(Rows) :
            i < j =>
                \/ RowViews(Rows[i]) > RowViews(Rows[j])
                \/ /\ RowViews(Rows[i]) = RowViews(Rows[j])
                   /\ FirstSeen(RowTag(Rows[i])) < FirstSeen(RowTag(Rows[j]))

\* Two tags tie on a positive view count, and the questions differ in theirs.
C7_Witness ==
    /\ pc = "done"
    /\ Len(Rows) = 2
    /\ RowViews(Rows[1]) = RowViews(Rows[2])
    /\ RowViews(Rows[1]) > 0
    /\ Len(questions) = 2
    /\ questions[1]["view_count"] # questions[2]["view_count"]

\* ------------------------------------------------------------ C8
\* C8: an item without an owner never causes an error (the only error is the one of
\* an answer without a parent), and once the contributor lists are built, "unknown"
\* is exactly once in the askers of every tag an ownerless question carries and in
\* the global askers, exactly once in the answerers of every tag the parent of an
\* ownerless answer carries and in the global answerers, and exactly once in the
\* commenters of every tag under which an ownerless comment was made and in the
\* global commenters.
C8_UnknownCountedOnce ==
    /\ (pc = "error" => IsOrphan(answers[ai]))
    /\ ListsBuilt =>
        \A tag \in AllTags :
            /\ (\E i \in QuestionsWith(tag) : HasNoOwner(questions[i])) =>
                   /\ Count(ContributorsOf(tag)["askers"], "unknown") = 1
                   /\ Count(question_contributors, "unknown") = 1
            /\ (\E j \in AnswersWith(tag) : HasNoOwner(answers[j])) =>
                   /\ Count(ContributorsOf(tag)["answerers"], "unknown") = 1
                   /\ Count(answer_contributors, "unknown") = 1
            /\ (\/ \E i \in QuestionsWith(tag) : HasOwnerlessComment(questions[i])
                \/ \E j \in AnswersWith(tag) : HasOwnerlessComment(answers[j])) =>
                   /\ Count(ContributorsOf(tag)["commenters"], "unknown") = 1
                   /\ Count(comment_contributors, "unknown") = 1

\* Two ownerless questions under one tag, an ownerless answer, ownerless comments on
\* a question and on an answer.
C8_Witness ==
    /\ pc = "done"
    /\ Len(questions) = 2
    /\ HasNoOwner(questions[1])
    /\ HasNoOwner(questions[2])
    /\ Range(questions[1]["tags"]) \cap Range(questions[2]["tags"]) # {}
    /\ HasOwnerlessComment(questions[1])
    /\ \E j \in 1..Len(answers) :
        HasNoOwner(answers[j]) /\ HasOwnerlessComment(answers[j])

\* ------------------------------------------------------------ C9
\* C9: in every state of create_contributor_lists and after it, no user id is twice
\* in a role list of a tag or in a global role list, and no tag has two records in
\* tag_contributors.
C9_NoDuplicates ==
    /\ NoDuplicates(question_contributors)
    /\ NoDuplicates(answer_contributors)
    /\ NoDuplicates(comment_contributors)
    /\ NoDuplicates([i \in 1..Len(tag_contributors) |-> tag_contributors[i]["tag"]])
    /\ \A i \in 1..Len(tag_contributors) :
        /\ NoDuplicates(tag_contributors[i]["askers"])
        /\ NoDuplicates(tag_contributors[i]["answerers"])
        /\ NoDuplicates(tag_contributors[i]["commenters"])

\* In the middle of the loop over answers, after the same user asked two questions
\* under one tag, answered one of them and commented.
C9_Witness ==
    /\ pc = "create_contributor_lists"
    /\ Len(questions) = 2
    /\ qi = 3
    /\ Len(answers) = 2
    /\ ai = 2
    /\ validate_user_id(questions[1]) = validate_user_id(questions[2])
    /\ validate_user_id(answers[1]) = validate_user_id(questions[1])
    /\ Range(questions[1]["tags"]) \cap Range(questions[2]["tags"]) # {}
    /\ get_comments(questions[1]) # <<>>
    /\ get_comments(questions[1]) = get_comments(questions[2])
    /\ get_comments(answers[1]) = get_comments(questions[1])

\* ------------------------------------------------------------ C10
\* The exchanges of an endpoint, in the order they were made.
ExchangesOf(e) == SelectSeq(exchanges, LAMBDA x : x.endpoint = e)

RECURSIVE ItemsReceived(_)
ItemsReceived(xs) ==
    IF xs = <<>> THEN <<>>
    ELSE (IF Head(xs).status_code = 200 THEN Head(xs).items ELSE <<>>)
         \o ItemsReceived(Tail(xs))

\* C10: for every endpoint, the pages are requested in the order 1, 2, 3, ..., each
\* once; a response with a status other than 200 is the last exchange of the
\* endpoint; and the file written for the endpoint holds the items of the pages
\* received with status 200, in page order, and nothing else.
C10_FetchStopsOnFailure ==
    \A e \in Endpoints :
        LET xs == ExchangesOf(e)
        IN  /\ \A k \in 1..Len(xs) : xs[k].page = k
            /\ \A k \in 1..Len(xs) : xs[k].status_code # 200 => k = Len(xs)
            /\ files[e] # None => Head(files[e]) = ItemsReceived(xs)

\* The call got two pages with different items, slept once, then got a failure, and
\* has written its file.
C10_Witness ==
    LET xs == ExchangesOf(endpoint)
    IN  /\ fpc = "returned"
        /\ Len(xs) = 3
        /\ xs[3].status_code # 200
        /\ files[endpoint] # None
        /\ Len(Head(files[endpoint])) = 2
        /\ xs[1].items # xs[2].items
        /\ slept = 15

====
